---- MODULE Spec2Model ----
(***************************************************************************)
(* Model of the unwrap-infallible crate (src/src/lib.rs) together with the *)
(* two test crates that exercise it (the unit tests of lib.rs and          *)
(* tests/blanket_impl.rs).                                                 *)
(*                                                                         *)
(* A behaviour is one build of the crate under a feature set followed by   *)
(* caller programs: the caller constructs Result values by safe code only, *)
(* calls unwrap_infallible on one of them, and drops its locals.  Trait    *)
(* resolution (which impl, if any, applies to Result<T, E>) is computed    *)
(* from the cfg gates and the where clauses of the impls.                  *)
(***************************************************************************)
EXTENDS Integers, FiniteSets, Sequences, TLC

VARIABLES
    features,   \* the cfg feature flags the crate is compiled with
    phase,      \* "unbuilt", "ready" or "build_error"
    r,          \* the caller's local the method is called on
    other,      \* a second local owned by the caller
    a,          \* the u8 local `a` of a widening conversion, or Unit
    out         \* what the last call of unwrap_infallible did

vars == <<features, phase, r, other, a, out>>

----------------------------------------------------------------------------
(* Bounds of the model *)

\* generic u8 payloads 0..MaxPayload handed to Ok(..) by the caller
MaxPayload == 2
\* every inhabited failure type has the values 1..NumErrValues
NumErrValues == 2

(* Program constants *)

\* the width of the u8 of `let a = 42u8`
U8Bits == 8
\* the width, in bytes, of the u64 target of u64::try_from
U64Bytes == 8

U8Max == (2 ^ U8Bits) - 1

----------------------------------------------------------------------------
(* Values *)

Unit == [ty |-> "unit", bytes |-> <<>>]
Bool(b) == [ty |-> "bool", bytes |-> <<IF b THEN 1 ELSE 0>>]
U8(n) == [ty |-> "u8", bytes |-> <<n>>]

Bools == {Bool(TRUE), Bool(FALSE)}

\* the payloads the caller wraps directly
Payloads == Bools \cup {U8(n) : n \in 0..MaxPayload}

\* the numeric value of a little-endian integer payload
RECURSIVE LeValue(_)
LeValue(bytes) ==
    IF bytes = <<>> THEN 0 ELSE Head(bytes) + 256 * LeValue(Tail(bytes))

----------------------------------------------------------------------------
(* Feature flags and the build *)

AllFeatures == {"blanket_impl", "never_type"}

\* #![cfg_attr(feature = "never_type", feature(never_type))]
NeverTypeGate(fs) == "never_type" \in fs

(* The impls of UnwrapInfallible, by the cfg attribute in front of each.   *)
(* "custom" is the per-type impl the unit tests write for MyNeverToken.    *)
(* A definition named Mut_X is a seeded fault of the definition after it:  *)
(* the properties below are shown to fail when the fault is put in.        *)
Mut_BlanketCompiled(fs) == TRUE
BlanketCompiled(fs) == "blanket_impl" \in fs

NeverCompiled(fs) == "never_type" \in fs /\ "blanket_impl" \notin fs

Mut_InfallibleCompiled(fs) == "never_type" \notin fs /\ "blanket_impl" \notin fs
InfallibleCompiled(fs) == "blanket_impl" \notin fs

CustomCompiled(fs) == "blanket_impl" \notin fs

LibraryImpls(fs) ==
    {i \in {"blanket", "never", "infallible"} :
        \/ i = "blanket" /\ BlanketCompiled(fs)
        \/ i = "never" /\ NeverCompiled(fs)
        \/ i = "infallible" /\ InfallibleCompiled(fs)}

CompiledImpls(fs) ==
    LibraryImpls(fs) \cup (IF CustomCompiled(fs) THEN {"custom"} ELSE {})

\* the impls that name the type `!`, which needs the never_type gate
NamesNever(fs) == BlanketCompiled(fs) \/ NeverCompiled(fs)

Builds(fs) == NamesNever(fs) => NeverTypeGate(fs)

----------------------------------------------------------------------------
(* Failure types *)

(* "Infallible" and "Never" (the type `!`) are the canonical empty types.  *)
(* "MyNeverToken" is the zero-variant enum of the unit tests of lib.rs,    *)
(* "ItMyNeverToken" the one of tests/blanket_impl.rs.  The other three are *)
(* failure types a caller can name that have values: TryFromIntError of    *)
(* core (which implements From<!>), a caller's error type for which the    *)
(* caller wrote From<!>, and a caller's error type with no such impl.      *)
EmptyTypes == {"Infallible", "Never", "MyNeverToken", "ItMyNeverToken"}
InhabitedTypes == {"TryFromIntError", "UserError", "PlainError"}
FailureTypes == EmptyTypes \cup InhabitedTypes

ErrValue(E, i) == [ty |-> E, bytes |-> <<i>>]

\* the values of a failure type that safe code can construct
Inhabitants(E) ==
    IF E \in EmptyTypes THEN {} ELSE {ErrValue(E, i) : i \in 1..NumErrValues}

\* the failure types a program compiled with fs can name
TypeExists(fs, E) ==
    CASE E = "Never" -> NeverTypeGate(fs)
      [] E = "ItMyNeverToken" -> "blanket_impl" \in fs
      [] OTHER -> TRUE

\* E: From<!>
FromNever(fs, E) ==
    CASE E = "MyNeverToken" -> "never_type" \in fs
      [] E = "ItMyNeverToken" -> FALSE
      [] OTHER -> E \in {"Never", "Infallible", "TryFromIntError", "UserError"}

\* !: From<E>, that is E: Into<!>
IntoNever(fs, E) ==
    CASE E = "ItMyNeverToken" -> TRUE
      [] OTHER -> E = "Never"

\* does impl i cover Result<T, E>
Applies(i, fs, E) ==
    CASE i = "blanket" -> FromNever(fs, E)
      [] i = "never" -> E = "Never"
      [] i = "infallible" -> E = "Infallible"
      [] i = "custom" -> E = "MyNeverToken"

\* method resolution of r.unwrap_infallible() for r: Result<T, E>
Resolve(fs, E) == {i \in CompiledImpls(fs) : Applies(i, fs, E)}

\* the failure types the library itself recognises
Recognized(fs) ==
    {E \in FailureTypes :
        TypeExists(fs, E) /\ \E i \in LibraryImpls(fs) : Applies(i, fs, E)}

----------------------------------------------------------------------------
(* Result values *)

Ok(E, v) == [state |-> "live", tag |-> "Ok", E |-> E, val |-> v]
Err(E, e) == [state |-> "live", tag |-> "Err", E |-> E, val |-> e]
NoValue == [state |-> "empty", tag |-> "Ok", E |-> "Infallible", val |-> Unit]
Moved(c) == [c EXCEPT !.state = "moved"]

\* u64::try_from(a) for a: u8, a Result<u64, Infallible>
try_from(x) ==
    Ok("Infallible",
       [ty |-> "u64",
        bytes |-> [k \in 1..U64Bytes |-> IF k = 1 THEN x.bytes[1] % 256 ELSE 0]])

----------------------------------------------------------------------------
(* The bodies of unwrap_infallible *)

Returned(v) == [kind |-> "returned", val |-> v, closure |-> 0, ub |-> FALSE]

(* unreachable_unchecked() when reached is undefined behaviour: the build  *)
(* may return any bit pattern as the payload or stop the program.          *)
unreachable_unchecked ==
    {[kind |-> k, val |-> v, closure |-> 1, ub |-> TRUE] :
        k \in {"returned", "trap"}, v \in Bools \cup {Unit}}

\* Result::unwrap_or_else(self, op) with op = |_| unsafe { unreachable_unchecked() }
unwrap_or_else(self) ==
    IF self.tag = "Ok" THEN {Returned(self.val)} ELSE unreachable_unchecked

Mut_DefaultPayload(self) == {Returned(Bool(FALSE))}
Mut_AlwaysClosure(self) == unreachable_unchecked

BlanketUnwrap(self) == unwrap_or_else(self)
NeverUnwrap(self) == unwrap_or_else(self)
InfallibleUnwrap(self) == unwrap_or_else(self)
CustomUnwrap(self) == unwrap_or_else(self)

Body(i, self) ==
    CASE i = "blanket" -> BlanketUnwrap(self)
      [] i = "never" -> NeverUnwrap(self)
      [] i = "infallible" -> InfallibleUnwrap(self)
      [] i = "custom" -> CustomUnwrap(self)

----------------------------------------------------------------------------
(* The state machine *)

NoCall ==
    [kind |-> "none", val |-> Unit, closure |-> 0, ub |-> FALSE,
     impl |-> "none", arg |-> NoValue]

\* the containers safe code can construct for the failure type E
SafeResults(E) ==
    {Ok(E, v) : v \in Payloads} \cup {Err(E, e) : e \in Inhabitants(E)}

\* the shape of the state
TypeOK ==
    /\ features \in SUBSET AllFeatures
    /\ phase \in {"unbuilt", "ready", "build_error"}
    /\ r.state \in {"empty", "live", "moved"}
    /\ r.tag \in {"Ok", "Err"}
    /\ r.E \in FailureTypes
    /\ other = NoValue \/ \E E \in FailureTypes : other \in SafeResults(E)
    /\ a = Unit \/ (a.ty = "u8" /\ a.bytes[1] \in 0..U8Max)
    /\ out.kind \in {"none", "returned", "trap", "rejected"}
    /\ out.impl \in {"none", "blanket", "never", "infallible", "custom"}
    /\ out.closure \in {0, 1}
    /\ out.ub \in BOOLEAN

Init ==
    /\ features \in SUBSET AllFeatures
    /\ phase = "unbuilt"
    /\ r = NoValue
    /\ other = NoValue
    /\ a = Unit
    /\ out = NoCall

\* cargo build with the chosen features
Build ==
    /\ phase = "unbuilt"
    /\ phase' = IF Builds(features) THEN "ready" ELSE "build_error"
    /\ UNCHANGED <<features, r, other, a, out>>

\* let r: Result<T, E> = Ok(v), or Err(e) where E has a value e
ConstructR ==
    /\ phase = "ready"
    /\ out.kind = "none"
    /\ r.state = "empty"
    /\ \E E \in FailureTypes :
          /\ TypeExists(features, E)
          /\ \E c \in SafeResults(E) : r' = c
    /\ UNCHANGED <<features, phase, other, a, out>>

\* a second local of the caller
ConstructOther ==
    /\ phase = "ready"
    /\ out.kind = "none"
    /\ other.state = "empty"
    /\ \E E \in FailureTypes :
          /\ TypeExists(features, E)
          /\ \E c \in SafeResults(E) : other' = c
    /\ UNCHANGED <<features, phase, r, a, out>>

\* let a = ..u8; u64::try_from(a)
TryFromU8 ==
    /\ phase = "ready"
    /\ out.kind = "none"
    /\ r.state = "empty"
    /\ \E n \in 0..U8Max :
          /\ a' = U8(n)
          /\ r' = try_from(a')
    /\ UNCHANGED <<features, phase, other, out>>

Mut_unwrap_infallible ==
    /\ phase = "ready"
    /\ out.kind = "none"
    /\ r.state = "live"
    /\ Resolve(features, r.E) # {}
    /\ \E i \in Resolve(features, r.E) :
          \E o \in Body(i, r) :
             out' = [kind |-> o.kind, val |-> o.val, closure |-> o.closure,
                     ub |-> o.ub, impl |-> i, arg |-> r]
    /\ r' = Moved(r)
    /\ other' = NoValue
    /\ UNCHANGED <<features, phase, a>>

\* r.unwrap_infallible() where an impl covers the type of r
unwrap_infallible ==
    /\ phase = "ready"
    /\ out.kind = "none"
    /\ r.state = "live"
    /\ Resolve(features, r.E) # {}
    /\ \E i \in Resolve(features, r.E) :
          \E o \in Body(i, r) :
             out' = [kind |-> o.kind, val |-> o.val, closure |-> o.closure,
                     ub |-> o.ub, impl |-> i, arg |-> r]
    /\ r' = Moved(r)
    /\ UNCHANGED <<features, phase, other, a>>

\* r.unwrap_infallible() where no impl covers the type of r: a compile error
Rejected ==
    /\ phase = "ready"
    /\ out.kind = "none"
    /\ r.state = "live"
    /\ Resolve(features, r.E) = {}
    /\ out' = [NoCall EXCEPT !.kind = "rejected", !.arg = r]
    /\ UNCHANGED <<features, phase, r, other, a>>

\* the caller's function ends and its locals are dropped
Finish ==
    /\ phase = "ready"
    /\ \/ out.kind # "none"
       \/ r.state # "empty"
       \/ other.state # "empty"
    /\ r' = NoValue
    /\ other' = NoValue
    /\ a' = Unit
    /\ out' = NoCall
    /\ UNCHANGED <<features, phase>>

Next ==
    \/ Build
    \/ ConstructR
    \/ ConstructOther
    \/ TryFromU8
    \/ unwrap_infallible
    \/ Rejected
    \/ Finish

Spec == Init /\ [][Next]_vars

----------------------------------------------------------------------------
(* Properties *)

\* a call of unwrap_infallible compiled and ran
Called == out.kind \in {"returned", "trap"}
\* r holds a success-tagged Result
LiveOk == r.state = "live" /\ r.tag = "Ok"

(* C1: round trip.  Under every feature set, for every failure type an     *)
(* impl covers and every payload v, unwrap_infallible applied to Ok(v)     *)
(* returns exactly v, and the blanket, `!` and Infallible impls give the   *)
(* same result on every success-tagged input.                              *)
C1_RoundTrip ==
    /\ (Called /\ out.arg.tag = "Ok") =>
          (out.kind = "returned" /\ out.val = out.arg.val)
    /\ LiveOk =>
          /\ \A i \in Resolve(features, r.E) : Body(i, r) = {Returned(r.val)}
          /\ BlanketUnwrap(r) = {Returned(r.val)}
          /\ NeverUnwrap(r) = BlanketUnwrap(r)
          /\ InfallibleUnwrap(r) = BlanketUnwrap(r)

\* with_never_type: Ok(true) of Result<bool, !> came back as true
C1_Witness ==
    /\ out.kind = "returned"
    /\ out.impl = "never"
    /\ out.arg = Ok("Never", Bool(TRUE))
    /\ out.val = Bool(TRUE)

(* C2: unwrap_infallible is available only for failure types without       *)
(* values: a call on a Result whose failure type has a constructible value *)
(* never compiles, under any feature set.                                  *)
C2_OnlyUninhabited ==
    Called => Inhabitants(out.arg.E) = {}

(* C3: on a success-tagged input the call returns the payload normally:    *)
(* the failure-branch closure is not invoked, nothing traps and the        *)
(* unreachable assertion is not executed.                                  *)
C3_NoPanicOnOk ==
    /\ (Called /\ out.arg.tag = "Ok") =>
          (out.kind = "returned" /\ out.closure = 0 /\ ~out.ub)
    /\ LiveOk =>
          \A i \in Resolve(features, r.E) :
             \A o \in Body(i, r) : o.kind = "returned" /\ o.closure = 0 /\ ~o.ub

\* a success-tagged Result whose failure type has values was unwrapped
C3_Witness ==
    /\ out.kind = "returned"
    /\ out.arg.tag = "Ok"
    /\ out.arg.E = "UserError"
    /\ out.closure = 0

(* C4: for every u8 a, u64::try_from(a) is success-tagged with failure     *)
(* type Infallible, and unwrap_infallible of it is the u64 numerically     *)
(* equal to a.                                                             *)
C4_Widening ==
    /\ (a # Unit /\ r.state = "live") =>
          /\ r.tag = "Ok"
          /\ r.E = "Infallible"
          /\ Resolve(features, r.E) # {}
    /\ (a # Unit /\ out.kind # "none") =>
          /\ out.kind = "returned"
          /\ out.val.ty = "u64"
          /\ Len(out.val.bytes) = U64Bytes
          /\ LeValue(out.val.bytes) = LeValue(a.bytes)

\* with_infallible: 42u8 came back as 42u64
C4_Witness ==
    /\ a = U8(42)
    /\ out.kind = "returned"
    /\ out.val.ty = "u64"
    /\ LeValue(out.val.bytes) = 42

(* C5: without blanket_impl, the per-type impl written for the             *)
(* zero-variant MyNeverToken returns the success payload unchanged.        *)
C5_CustomType ==
    /\ (r.state = "live" /\ r.E = "MyNeverToken" /\ "blanket_impl" \notin features) =>
          Resolve(features, r.E) = {"custom"}
    /\ (Called /\ out.impl = "custom") =>
          /\ "blanket_impl" \notin features
          /\ out.arg.E = "MyNeverToken"
          /\ out.arg.tag = "Ok"
          /\ out.kind = "returned"
          /\ out.val = out.arg.val

\* with_custom_type of lib.rs: Ok(true) came back as true
C5_Witness ==
    /\ out.kind = "returned"
    /\ out.impl = "custom"
    /\ out.arg = Ok("MyNeverToken", Bool(TRUE))
    /\ out.val = Bool(TRUE)

\* the zero-variant failure types the two test crates declare
TestTokens == {"MyNeverToken", "ItMyNeverToken"}

(* C6: under blanket_impl the zero-variant failure types of the tests are  *)
(* covered by the blanket impl through the proof the tests supply, and     *)
(* unwrap_infallible of Ok(true) returns true.                             *)
C6_TestProofAccepted ==
    ("blanket_impl" \in features /\ out.kind # "none"
        /\ out.arg.E \in TestTokens /\ out.arg.val = Bool(TRUE)) =>
       /\ out.kind = "returned"
       /\ out.impl = "blanket"
       /\ out.val = Bool(TRUE)

C8_UnreachableNeverReached ==
    /\ ~out.ub
    /\ out.closure = 0

(* C9: a call moves its input and changes nothing else; its result is the  *)
(* payload of the input, in one step.                                      *)
C9_Frame ==
    [][(out.kind = "none" /\ out'.kind \in {"returned", "trap"}) =>
          /\ other' = other
          /\ a' = a
          /\ features' = features
          /\ phase' = phase
          /\ r' = Moved(r)
          /\ out'.arg = r
          /\ (r.tag = "Ok" => out'.kind = "returned" /\ out'.val = r.val)]_vars

\* a call returned while the caller's other local is still held
C9_Witness ==
    /\ out.kind = "returned"
    /\ r.state = "moved"
    /\ other.state = "live"
    /\ other.tag = "Ok"

====
